---- MODULE Spec2Model ----
(***************************************************************************)
(* Capillary-pressure physics models of OpenPNM                            *)
(* (OpenPNM/Physics/models/capillary_pressure.py).                         *)
(*                                                                         *)
(* numpy float64 elements are modelled as fixed-point numbers (an integer  *)
(* n stands for n / Scale) together with the IEEE special values +inf,     *)
(* -inf and nan.  Arrays are sequences; the code's index i is the model's  *)
(* index i+1.  A property key 'pore.diameter' is the pair                  *)
(* <<"pore", "diameter">>, so that key.split('.')[0] is key[1].            *)
(***************************************************************************)
EXTENDS Integers, Sequences, FiniteSets, TLC

VARIABLES network, phase, physics, ret, before, OP_1, controller

vars == <<network, phase, physics, ret, before, OP_1, controller>>

(***************************************************************************)
(* float64 scalars                                                         *)
(***************************************************************************)
Scale == 100

Fin(n) == [k |-> "fin", v |-> n]
PInf == [k |-> "inf", v |-> 1]
NInf == [k |-> "inf", v |-> -1]
NaN == [k |-> "nan", v |-> 0]

IsFin(x) == x.k = "fin"
IsInf(x) == x.k = "inf"
IsNaN(x) == x.k = "nan"

Sign(n) == IF n > 0 THEN 1 ELSE IF n < 0 THEN -1 ELSE 0
Abs(n) == IF n < 0 THEN -n ELSE n
\* integer quotient rounded to nearest (ties away from zero)
Quot(a, b) == Sign(a) * Sign(b) * ((2 * Abs(a) + Abs(b)) \div (2 * Abs(b)))
SignInf(s) == IF s > 0 THEN PInf ELSE NInf

FNeg(x) == IF IsNaN(x) THEN NaN ELSE [x EXCEPT !.v = -x.v]

FAbs(x) == IF IsNaN(x) THEN NaN ELSE [x EXCEPT !.v = Abs(x.v)]

FAdd(x, y) ==
  IF IsNaN(x) \/ IsNaN(y) THEN NaN
  ELSE IF IsInf(x) /\ IsInf(y) THEN (IF x.v = y.v THEN x ELSE NaN)
  ELSE IF IsInf(x) THEN x
  ELSE IF IsInf(y) THEN y
  ELSE Fin(x.v + y.v)

FSub(x, y) == FAdd(x, FNeg(y))

FMul(x, y) ==
  IF IsNaN(x) \/ IsNaN(y) THEN NaN
  ELSE IF IsInf(x) \/ IsInf(y)
       THEN (IF x.v = 0 \/ y.v = 0 THEN NaN ELSE SignInf(Sign(x.v) * Sign(y.v)))
  ELSE Fin(Quot(x.v * y.v, Scale))

\* numpy true division: x/0 is +-inf (nan for 0/0) with a RuntimeWarning, no
\* exception
FDiv(x, y) ==
  IF IsNaN(x) \/ IsNaN(y) THEN NaN
  ELSE IF IsInf(x) /\ IsInf(y) THEN NaN
  ELSE IF IsInf(x) THEN SignInf(x.v * (IF y.v < 0 THEN -1 ELSE 1))
  ELSE IF IsInf(y) THEN Fin(0)
  ELSE IF y.v = 0 THEN (IF x.v = 0 THEN NaN ELSE SignInf(x.v))
  ELSE Fin(Quot(x.v * Scale, y.v))

\* pi in fixed point
Pi == Quot(355 * Scale, 113)

\* sp.radians / the factor 2*pi/360
FRadians(x) == IF IsFin(x) THEN Fin(Quot(x.v * Pi, 180 * Scale)) ELSE x

\* cosine of a whole number of degrees (Bhaskara's rational approximation)
CosDeg(d) ==
  LET m == d % 360
      a == IF m > 180 THEN 360 - m ELSE m
      B(t) == Quot(Scale * (32400 - 4 * t * t), 32400 + t * t)
  IN IF a <= 90 THEN B(a) ELSE -B(180 - a)

\* radians (fixed point) to the nearest whole degree
ToDeg(v) == Quot(v * 180, Pi)

\* sp.cos / sp.sin of an angle in radians
FCos(x) == IF IsFin(x) THEN Fin(CosDeg(ToDeg(x.v))) ELSE NaN

FSin(x) == IF IsFin(x) THEN Fin(CosDeg(ToDeg(x.v) - 90)) ELSE NaN

\* sp.arcsin: nan outside [-1, 1] (RuntimeWarning, no exception); the result is
\* in radians, in [-pi/2, pi/2]
RECURSIVE ArcsinDeg(_, _, _)
ArcsinDeg(s, lo, hi) ==
  IF lo >= hi THEN lo
  ELSE LET mid == (lo + hi) \div 2
       IN IF CosDeg(mid - 90) >= s THEN ArcsinDeg(s, lo, mid)
          ELSE ArcsinDeg(s, mid + 1, hi)

FArcsin(x) ==
  IF ~IsFin(x) THEN NaN
  ELSE IF Abs(x.v) > Scale THEN NaN
  ELSE FRadians(Fin(Scale * ArcsinDeg(x.v, -90, 90)))

\* sp.sqrt: nan for a negative argument (RuntimeWarning, no exception)
RECURSIVE ISqrt(_, _, _)
ISqrt(n, lo, hi) ==
  IF lo >= hi THEN lo
  ELSE LET mid == (lo + hi + 1) \div 2
       IN IF mid * mid <= n THEN ISqrt(n, mid, hi) ELSE ISqrt(n, lo, mid - 1)

FSqrt(x) ==
  IF IsNaN(x) THEN NaN
  ELSE IF IsInf(x) THEN (IF x.v > 0 THEN PInf ELSE NaN)
  ELSE IF x.v < 0 THEN NaN
  ELSE Fin(ISqrt(x.v * Scale, 0, x.v + Scale))

\* np.exp (third-order series for finite arguments)
FExp(x) ==
  IF IsNaN(x) THEN NaN
  ELSE IF IsInf(x) THEN (IF x.v > 0 THEN PInf ELSE Fin(0))
  ELSE LET x2 == FMul(x, x)
           x3 == FMul(x2, x)
       IN FAdd(FAdd(Fin(Scale), x), FAdd(FDiv(x2, Fin(2 * Scale)), FDiv(x3, Fin(6 * Scale))))

(***************************************************************************)
(* numpy arrays: elementwise arithmetic with broadcasting, fancy indexing  *)
(***************************************************************************)
\* shapes (n,) and (m,) broadcast iff equal or one of them is 1
BOk(A, B) == Len(A) = Len(B) \/ Len(A) = 1 \/ Len(B) = 1
BLen(A, B) == IF Len(A) = 1 THEN Len(B) ELSE Len(A)
At(A, i) == IF Len(A) = 1 THEN A[1] ELSE A[i]

Scalar(n) == <<Fin(n)>>

AAdd(A, B) == [i \in 1..BLen(A, B) |-> FAdd(At(A, i), At(B, i))]
ASub(A, B) == [i \in 1..BLen(A, B) |-> FSub(At(A, i), At(B, i))]
AMul(A, B) == [i \in 1..BLen(A, B) |-> FMul(At(A, i), At(B, i))]
ADiv(A, B) == [i \in 1..BLen(A, B) |-> FDiv(At(A, i), At(B, i))]
ARadians(A) == [i \in 1..Len(A) |-> FRadians(A[i])]
ACos(A) == [i \in 1..Len(A) |-> FCos(A[i])]
ASin(A) == [i \in 1..Len(A) |-> FSin(A[i])]
AArcsin(A) == [i \in 1..Len(A) |-> FArcsin(A[i])]
ASqrt(A) == [i \in 1..Len(A) |-> FSqrt(A[i])]
AExp(A) == [i \in 1..Len(A) |-> FExp(A[i])]

\* value[indices]
TakeOk(A, idx) == \A i \in 1..Len(idx) : idx[i] \in 1..Len(A)
Take(A, idx) == [i \in 1..Len(idx) |-> A[idx[i]]]

\* the larger / smaller of two floats; nan propagates as in np.max / np.min
FLe(x, y) ==
  IF IsInf(x) THEN x.v < 0 \/ (IsInf(y) /\ y.v > 0)
  ELSE IF IsInf(y) THEN y.v > 0
  ELSE x.v <= y.v
FMax(x, y) == IF IsNaN(x) \/ IsNaN(y) THEN NaN ELSE IF FLe(x, y) THEN y ELSE x
FMin(x, y) == IF IsNaN(x) \/ IsNaN(y) THEN NaN ELSE IF FLe(x, y) THEN x ELSE y

\* array.max(), array.min() of a non-empty array
RECURSIVE AMax(_)
AMax(A) == IF Len(A) = 1 THEN A[1] ELSE FMax(A[1], AMax(Tail(A)))
RECURSIVE AMin(_)
AMin(A) == IF Len(A) = 1 THEN A[1] ELSE FMin(A[1], AMin(Tail(A)))

\* array.sum(), and np.mean, which is nan for an empty array (RuntimeWarning,
\* no exception)
RECURSIVE ASum(_)
ASum(A) == IF Len(A) = 0 THEN Fin(0) ELSE FAdd(A[1], ASum(Tail(A)))
AMean(A) == IF Len(A) = 0 THEN NaN ELSE FDiv(ASum(A), Fin(Len(A) * Scale))

\* the increasing sequence of the members of a set of indices
RECURSIVE SortedSeq(_)
SortedSeq(S) ==
  IF S = {} THEN <<>>
  ELSE LET m == CHOOSE x \in S : \A y \in S : x <= y
       IN <<m>> \o SortedSeq(S \ {m})


(***************************************************************************)
(* Accessors of the object framework the models call                       *)
(***************************************************************************)
\* phase.throats(physics.name), phase.pores(physics.name): the indices the
\* physics object governs
PhaseThroats(phys) == phys.throats
PhasePores(phys) == phys.pores

\* phase.interpolate_data(data=pore array): throat value = mean of the values
\* of its two end pores
interpolate_data(net, data) ==
  [t \in 1..net.Nt |->
     FDiv(FAdd(data[net.conns[t][1]], data[net.conns[t][2]]), Fin(2 * Scale))]

\* network.find_neighbor_throats(pores=i): the throats incident to pore i
find_neighbor_throats(net, i) ==
  SortedSeq({t \in 1..net.Nt : net.conns[t][1] = i \/ net.conns[t][2] = i})

(***************************************************************************)
(* capillary_pressure.py                                                   *)
(***************************************************************************)
NoRef == <<"", "">>
None == [k |-> "none", v |-> 0]

\* _get_key_props: sigma and theta as stored on the phase, interpolated to
\* throats when the property is pore-scoped and the diameter throat-scoped.
\* sigma_ref / theta_ref name the phase array the returned array IS (the same
\* object, not a copy), NoRef when it is a new array.
_get_key_props(net, phase_, diameter, surface_tension, contact_angle) ==
  [entity |-> diameter[1],
   sigma |-> IF surface_tension[1] = "pore" /\ diameter[1] = "throat"
             THEN interpolate_data(net, phase_[surface_tension])
             ELSE phase_[surface_tension],
   sigma_ref |-> IF surface_tension[1] = "pore" /\ diameter[1] = "throat"
                 THEN NoRef ELSE surface_tension,
   theta |-> IF contact_angle[1] = "pore" /\ diameter[1] = "throat"
             THEN interpolate_data(net, phase_[contact_angle])
             ELSE phase_[contact_angle],
   theta_ref |-> IF contact_angle[1] = "pore" /\ diameter[1] = "throat"
                 THEN NoRef ELSE contact_angle]

\* _handle_zeros taking the minimum of the whole array where the code takes the
\* maximum
HandleZerosWithMin(array, mode, value) ==
  LET x == IF value # None THEN value ELSE IF mode = "max" THEN AMin(array) ELSE NaN
  IN IF value = None /\ mode \in {"min", "mean"} THEN [status |-> "TypeError", array |-> array]
     ELSE [status |-> "ok",
           array |-> [i \in 1..Len(array) |->
                        IF IsFin(array[i]) /\ array[i].v = 0 THEN x ELSE array[i]]]

\* _handle_zeros on a float64 array.  ~array (np.invert) is not defined for
\* float64 and raises TypeError; with an unrecognised mode value stays None and
\* the assignment stores nan.
_handle_zeros(array, mode, value) ==
  LET v == IF value # None THEN [status |-> "ok", x |-> value]
           ELSE IF mode = "max"
                THEN (IF Len(array) = 0 THEN [status |-> "ValueError", x |-> NaN]
                      ELSE [status |-> "ok", x |-> AMax(array)])
           ELSE IF mode \in {"min", "mean"} THEN [status |-> "TypeError", x |-> NaN]
           ELSE [status |-> "ok", x |-> NaN]
  IN IF v.status # "ok" THEN [status |-> v.status, array |-> array]
     ELSE [status |-> "ok",
           array |-> [i \in 1..Len(array) |->
                        IF IsFin(array[i]) /\ array[i].v = 0 THEN v.x ELSE array[i]]]

\* the clamp written without _sp.absolute: only +inf is replaced
ClampPlusInfOnly(value) == [i \in 1..Len(value) |-> IF value[i] = PInf THEN Fin(0) ELSE value[i]]

\* value[_sp.absolute(value) == _sp.inf] = 0
ClampInf(value) == [i \in 1..Len(value) |-> IF FAbs(value[i]) = PInf THEN Fin(0) ELSE value[i]]

\* the slice to the physics scope shared by washburn, purcell and cuboid
ScopeIndices(phys, entity) == IF entity = "throat" THEN PhaseThroats(phys) ELSE PhasePores(phys)

\* the outcome of a call: the exception raised or "ok", the array computed for
\* every entity (full), its slice to the physics scope (raw), the array
\* returned (value), and the phase as the call leaves it
Failed(status, phase_) == [status |-> status, full |-> <<>>, raw |-> <<>>, value |-> <<>>, phase |-> phase_]
Returned(full, raw, value, phase_) == [status |-> "ok", full |-> full, raw |-> raw, value |-> value, phase |-> phase_]

washburn(phys, phase_, net, surface_tension, contact_angle, diameter) ==
  LET kp == _get_key_props(net, phase_, diameter, surface_tension, contact_angle)
      hz == _handle_zeros(ADiv(net.props[diameter], Scalar(2 * Scale)), "max", None)
      r == hz.array
      num == AMul(AMul(Scalar(-2 * Scale), kp.sigma), ACos(ARadians(kp.theta)))
      value == ADiv(num, r)
      idx == ScopeIndices(phys, kp.entity)
      raw == Take(value, idx)
  IN IF hz.status # "ok" THEN Failed(hz.status, phase_)
     ELSE IF ~(BOk(kp.sigma, kp.theta) /\ BOk(num, r)) THEN Failed("ValueError", phase_)
     ELSE IF ~TakeOk(value, idx) THEN Failed("IndexError", phase_)
     ELSE Returned(value, raw, ClampInf(raw), phase_)

purcell(phys, phase_, net, r_toroid, surface_tension, contact_angle, diameter) ==
  LET kp == _get_key_props(net, phase_, diameter, surface_tension, contact_angle)
      hz == _handle_zeros(ADiv(net.props[diameter], Scalar(2 * Scale)), "max", None)
      r == hz.array
      R == <<r_toroid>>
      one == Scalar(Scale)
      alpha == AAdd(ASub(kp.theta, Scalar(180 * Scale)),
                    AArcsin(ASin(ADiv(ARadians(kp.theta), AAdd(one, ADiv(r, R))))))
      lhs == ADiv(AMul(Scalar(-2 * Scale), kp.sigma), r)
      rhs == ADiv(ACos(ARadians(ASub(kp.theta, alpha))),
                  AAdd(one, AMul(ADiv(R, r), ASub(one, ACos(ARadians(alpha))))))
      value == AMul(lhs, rhs)
      idx == ScopeIndices(phys, kp.entity)
  IN IF hz.status # "ok" THEN Failed(hz.status, phase_)
     ELSE IF ~(BOk(kp.theta, r) /\ BOk(kp.sigma, r) /\ BOk(lhs, rhs))
          THEN Failed("ValueError", phase_)
     ELSE IF ~TakeOk(value, idx) THEN Failed("IndexError", phase_)
     ELSE Returned(value, Take(value, idx), Take(value, idx), phase_)

\* cuboid: "theta *= 2*pi/360" multiplies in place the array _get_key_props
\* returned; when that array is the phase's own (theta_ref), the phase's array
\* is the one changed, whatever happens later in the call.
cuboid(phys, phase_, net, surface_tension, contact_angle, diameter) ==
  LET kp == _get_key_props(net, phase_, diameter, surface_tension, contact_angle)
      theta == ARadians(kp.theta)
      phase2 == IF kp.theta_ref # NoRef THEN [phase_ EXCEPT ![kp.theta_ref] = theta] ELSE phase_
      hz == _handle_zeros(ADiv(net.props[diameter], Scalar(2 * Scale)), "max", None)
      rad == hz.array
      quarter == <<Fin(Quot(Pi, 4))>>
      sc == AMul(ASin(theta), ACos(theta))
      c2 == AMul(ACos(theta), ACos(theta))
      Theta == ADiv(ASub(ASub(AAdd(theta, c2), quarter), sc),
                    ASub(ACos(theta), ASqrt(AAdd(ASub(quarter, theta), sc))))
      value == AMul(ADiv(kp.sigma, rad), Theta)
      idx == ScopeIndices(phys, kp.entity)
      raw == Take(value, idx)
  IN IF hz.status # "ok" THEN Failed(hz.status, phase2)
     ELSE IF ~(BOk(kp.sigma, rad) /\ BOk(ADiv(kp.sigma, rad), Theta))
          THEN Failed("ValueError", phase2)
     ELSE IF ~TakeOk(value, idx) THEN Failed("IndexError", phase2)
     ELSE Returned(value, raw, ClampInf(raw), phase2)

\* R = 8.314
R_gas == 831

kelvin(phys, phase_, net, diameter) ==
  LET T == phase_[<<"pore", "temperature">>]
      P0 == phase_[<<"pore", "vapor_pressure">>]
      M == phase_[<<"pore", "molecular_weight">>]
      rho == phase_[<<"pore", "density">>]
      gamma == phase_[<<"pore", "surface_tension">>]
      hz == _handle_zeros(ADiv(net.props[diameter], Scalar(2 * Scale)), "max", None)
      r == hz.array
      num == AMul(AMul(M, Scalar(2 * Scale)), gamma)
      den == AMul(AMul(AMul(rho, Scalar(R_gas)), T), r)
      value == AMul(P0, AExp(ADiv(num, den)))
  IN IF hz.status # "ok" THEN Failed(hz.status, phase_)
     ELSE IF ~BOk(T, r) THEN Failed("ValueError", phase_)
     ELSE Returned(value, value, value, phase_)

\* functions[operator](physics[capillary_pressure][ts]) for one pore
Reduce(operator, vals) ==
  IF operator = "mean" THEN [status |-> "ok", x |-> AMean(vals)]
  ELSE IF Len(vals) = 0 THEN [status |-> "ValueError", x |-> NaN]
  ELSE [status |-> "ok", x |-> IF operator = "min" THEN AMin(vals) ELSE AMax(vals)]

\* if operator not in functions.keys(): operator = 'mean'
EffectiveOperator(operator) == IF operator \notin {"min", "max", "mean"} THEN "mean" ELSE operator

from_throat(phys, phase_, net, capillary_pressure, operator) ==
  LET op == EffectiveOperator(operator)
      Pc == phys.props[capillary_pressure]
      one(i) == LET ts == find_neighbor_throats(net, i)
                IN IF ~TakeOk(Pc, ts) THEN [status |-> "IndexError", x |-> NaN]
                   ELSE Reduce(op, Take(Pc, ts))
      bad == {i \in 1..net.Np : one(i).status # "ok"}
      value == [i \in 1..net.Np |-> one(i).x]
  IN IF capillary_pressure \notin DOMAIN phys.props THEN Failed("KeyError", phase_)
     ELSE IF bad # {} THEN Failed(one(CHOOSE i \in bad : \A j \in bad : i <= j).status, phase_)
     ELSE Returned(value, value, value, phase_)

\* network.find_clusters2(occupancy): the pores a pore reaches through throats
\* whose two end pores are both occupied; label -1 for unoccupied pores, the
\* least pore of the cluster otherwise
RECURSIVE Reach(_, _, _)
Reach(net, occ, S) ==
  LET T == S \cup {q \in 1..net.Np : occ[q] /\ \E t \in 1..net.Nt, p \in S :
                      {net.conns[t][1], net.conns[t][2]} = {p, q}}
  IN IF T = S THEN S ELSE Reach(net, occ, T)

find_clusters2(net, occ) ==
  [p \in 1..net.Np |->
     IF ~occ[p] THEN -1
     ELSE LET C == Reach(net, occ, {p}) IN CHOOSE m \in C : \A q \in C : m <= q]

\* network['pore.coords'][Ps, col]
SortedCoord(net, P, col) == LET idx == SortedSeq(P) IN [i \in 1..Len(idx) |-> net.coords[idx[i]][col]]

\* the lowest point of the cluster taken where the code takes the highest
ClusterBottom(net, P, col) == AMin(SortedCoord(net, P, col))

\* tops = _sp.amax(network['pore.coords'][Ps, :], axis=0), one column of it
ClusterTop(net, P, col) == AMax(SortedCoord(net, P, col))

\* static_pressure: per cluster, g*(tops - coords) restricted to the columns
\* where g > 0, flattened, times rho[Ps].  The flattened array has
\* len(Ps) * (number of positive components of g) elements, so the product and
\* the assignment to static_pressure[Ps] fit only for exactly one column.
static_pressure(net, phys, phase_, pore_density, pore_occupancy, g) ==
  LET rho == phase_[pore_density]
      clusters == find_clusters2(net, phase_[pore_occupancy])
      cluster_nums == {clusters[p] : p \in 1..net.Np} \ {-1}
      cols == {c \in 1..3 : g[c] > 0}
      col == CHOOSE c \in cols : TRUE
      Ps(cl) == {p \in 1..net.Np : clusters[p] = cl}
      top(cl) == ClusterTop(net, Ps(cl), col)
      value == [p \in 1..net.Np |->
                  IF clusters[p] = -1 THEN Fin(0)
                  ELSE FMul(FMul(Fin(g[col]), FSub(top(clusters[p]), net.coords[p][col])), rho[p])]
  zeros == [p \in 1..net.Np |-> Fin(0)]
  IN IF cluster_nums = {} THEN Returned(zeros, zeros, zeros, phase_)
     ELSE IF Cardinality(cols) # 1 THEN Failed("ValueError", phase_)
     ELSE Returned(value, value, value, phase_)

(***************************************************************************)
(* The simulation objects: Network, Phase, Physics                         *)
(***************************************************************************)
MaxDiam == 1
MaxCoord == 1
MaxRadius == 2
MaxLen == 3

KPoreDiameter == <<"pore", "diameter">>
KThroatDiameter == <<"throat", "diameter">>
KPoreSigma == <<"pore", "surface_tension">>
KThroatSigma == <<"throat", "surface_tension">>
KPoreTheta == <<"pore", "contact_angle">>
KThroatTheta == <<"throat", "contact_angle">>
KPoreDensity == <<"pore", "density">>
KPoreOccupancy == <<"pore", "occupancy">>
KThroatPc == <<"throat", "capillary_pressure">>

DiameterKeys == {KPoreDiameter, KThroatDiameter}
SigmaKeys == {KPoreSigma, KThroatSigma}
ThetaKeys == {KPoreTheta, KThroatTheta}

\* throat.conns of three small networks: a chain of three pores, a triangle,
\* and one throat beside an isolated pore
Chain3 == [Np |-> 3, Nt |-> 2, conns |-> << <<1, 2>>, <<2, 3>> >>]
Tri3 == [Np |-> 3, Nt |-> 3, conns |-> << <<1, 2>>, <<2, 3>>, <<1, 3>> >>]
Lone3 == [Np |-> 3, Nt |-> 1, conns |-> << <<1, 2>> >>]
Topologies == {Chain3, Tri3, Lone3}

\* pore.coords: pore i at x = i, with its height z among 0..MaxCoord
CoordSets(n) ==
  { [i \in 1..n |-> <<Fin(i * Scale), Fin(0), Fin(z[i] * Scale)>>] : z \in [1..n -> 0..MaxCoord] }
StackedCoords(n) == [i \in 1..n |-> <<Fin(0), Fin(0), Fin((i - 1) * Scale)>>]

\* diameter arrays: the first z elements zero (boundary elements), the others
\* d, 2d, 3d, ... by position
DiamArray(n, z, d) == [i \in 1..n |-> Fin(IF i <= z THEN 0 ELSE d * i * Scale)]
\* how many boundary elements the diameter arrays have: none, one, or all
ZeroKinds == {"none", "one", "all"}
NumZeros(n, zk) == IF zk = "none" THEN 0 ELSE IF zk = "one" THEN 1 ELSE n

\* the pores and throats a physics object governs: the whole network, or a
\* strict subset of it
WholeScope(topo) == [pores |-> SortedSeq(1..topo.Np), throats |-> SortedSeq(1..topo.Nt)]
PartScope(topo) ==
  [pores |-> SortedSeq(2..topo.Np), throats |-> SortedSeq((IF topo.Nt > 1 THEN 2 ELSE 1)..topo.Nt)]
Scopes(topo) == {WholeScope(topo), PartScope(topo)}

Uniform(n, x) == [i \in 1..n |-> Fin(x)]
Graded(n, x0, dx) == [i \in 1..n |-> Fin(x0 + dx * (i - 1))]

PoreThetaArrays(n) == {Uniform(n, 120 * Scale), Graded(n, 0, 80 * Scale)}
OccupancyArrays(n) == [1..n -> BOOLEAN]

\* the percolation algorithm object before run(), and a controller holding
\* nothing
IdleOP == [status |-> "idle", inlets |-> {}, npts |-> 0, Pc |-> <<>>, invaded |-> <<>>]
EmptyController == [objects |-> <<>>, registry |-> {}, saved |-> <<>>, last |-> [op |-> ""]]

NoCall == [fn |-> "", args |-> <<>>, status |-> "", full |-> <<>>, raw |-> <<>>, value |-> <<>>]

Setup(topo, coords, sc, pd, td, pt, occ, rho, pc) ==
  /\ network = [Np |-> topo.Np, Nt |-> topo.Nt, conns |-> topo.conns, coords |-> coords,
                props |-> (KPoreDiameter :> pd @@ KThroatDiameter :> td)]
  /\ phase = (KPoreSigma :> Graded(topo.Np, 0, 8) @@ KThroatSigma :> Uniform(topo.Nt, 8)
              @@ KPoreTheta :> pt @@ KThroatTheta :> Graded(topo.Nt, 60 * Scale, 40 * Scale)
              @@ <<"pore", "temperature">> :> Uniform(topo.Np, Scale)
              @@ <<"pore", "vapor_pressure">> :> Uniform(topo.Np, 3 * Scale)
              @@ <<"pore", "molecular_weight">> :> Uniform(topo.Np, Scale)
              @@ KPoreDensity :> rho
              @@ KPoreOccupancy :> occ)
  /\ physics = [name |-> "phys", pores |-> sc.pores, throats |-> sc.throats, props |-> pc]
  /\ ret = NoCall
  /\ before = [network |-> network, phase |-> phase]
  /\ OP_1 = IdleOP
  /\ controller = EmptyController

\* the simulation as built in run_script.py, before any model has run
Init ==
  \E topo \in {Chain3} :
    \E sc \in Scopes(topo), d \in 1..MaxDiam, zk \in ZeroKinds :
      Setup(topo, StackedCoords(topo.Np), sc, DiamArray(topo.Np, NumZeros(topo.Np, zk), d),
            DiamArray(topo.Nt, NumZeros(topo.Nt, zk), d),
            Graded(topo.Np, 0, 80 * Scale),
            [i \in 1..topo.Np |-> i < topo.Np], Uniform(topo.Np, Scale), <<>>)

(***************************************************************************)
(* Calls of the models                                                     *)
(***************************************************************************)
Ret(fn, args, res) ==
  [fn |-> fn, args |-> args, status |-> res.status, full |-> res.full, raw |-> res.raw,
   value |-> res.value]
Snapshot == [network |-> network, phase |-> phase]

KeyArgs(d, st, ca) == [diameter |-> d, surface_tension |-> st, contact_angle |-> ca]

Washburn ==
  \E d \in DiameterKeys, st \in SigmaKeys, ca \in ThetaKeys :
    LET res == washburn(physics, phase, network, st, ca, d)
    IN /\ ret' = Ret("washburn", KeyArgs(d, st, ca), res)
       /\ phase' = res.phase
       /\ before' = Snapshot
       /\ UNCHANGED <<network, physics, OP_1, controller>>

\* r_toroid
RToroid == Fin(Scale)

Purcell ==
  \E d \in DiameterKeys, st \in SigmaKeys, ca \in ThetaKeys :
    LET res == purcell(physics, phase, network, RToroid, st, ca, d)
    IN /\ ret' = Ret("purcell", KeyArgs(d, st, ca), res)
       /\ phase' = res.phase
       /\ before' = Snapshot
       /\ UNCHANGED <<network, physics, OP_1, controller>>

Cuboid ==
  \E d \in DiameterKeys, st \in SigmaKeys, ca \in ThetaKeys :
    LET res == cuboid(physics, phase, network, st, ca, d)
    IN /\ ret' = Ret("cuboid", KeyArgs(d, st, ca), res)
       /\ phase' = res.phase
       /\ before' = Snapshot
       /\ UNCHANGED <<network, physics, OP_1, controller>>

Kelvin ==
  \E d \in DiameterKeys :
    LET res == kelvin(physics, phase, network, d)
    IN /\ ret' = Ret("kelvin", [diameter |-> d], res)
       /\ phase' = res.phase
       /\ before' = Snapshot
       /\ UNCHANGED <<network, physics, OP_1, controller>>

Next == Washburn \/ Purcell \/ Cuboid \/ Kelvin

Spec == Init /\ [][Next]_vars

(***************************************************************************)
(* Pore-level models: from_throat and static_pressure                      *)
(***************************************************************************)
Operators == {"min", "max", "mean", "median"}

FromThroat ==
  \E op \in Operators :
    LET res == from_throat(physics, phase, network, KThroatPc, op)
    IN /\ ret' = Ret("from_throat", [capillary_pressure |-> KThroatPc, operator |-> op], res)
       /\ phase' = res.phase
       /\ before' = Snapshot
       /\ UNCHANGED <<network, physics, OP_1, controller>>

Gravities == {<<0, 0, 981>>, <<981, 0, 0>>, <<0, 0, -981>>, <<0, 981, 981>>}

StaticPressure ==
  \E g \in Gravities :
    LET res == static_pressure(network, physics, phase, KPoreDensity, KPoreOccupancy, g)
    IN /\ ret' = Ret("static_pressure", [g |-> g], res)
       /\ phase' = res.phase
       /\ before' = Snapshot
       /\ UNCHANGED <<network, physics, OP_1, controller>>

\* phys.add_method(prop='capillary_pressure', model=...) and phys.regenerate():
\* the model's return value is what the physics object holds as
\* 'throat.capillary_pressure' (nothing when the model failed)
Regenerated(topo, sc, td, pt) ==
  LET net == [Np |-> topo.Np, Nt |-> topo.Nt, conns |-> topo.conns,
              props |-> (KThroatDiameter :> td)]
      ph == (KPoreSigma :> Graded(topo.Np, 0, 8) @@ KPoreTheta :> pt)
      res == washburn(sc, ph, net, KPoreSigma, KPoreTheta, KThroatDiameter)
  IN IF res.status = "ok" THEN (KThroatPc :> res.value) ELSE <<>>

InitPore ==
  \E topo \in Topologies :
    \E sc \in Scopes(topo), zt \in 0..topo.Nt, d \in 1..MaxDiam, pt \in PoreThetaArrays(topo.Np),
       coords \in CoordSets(topo.Np), occ \in OccupancyArrays(topo.Np) :
      Setup(topo, coords, sc, DiamArray(topo.Np, 0, d), DiamArray(topo.Nt, zt, d), pt,
            occ, Graded(topo.Np, 1000 * Scale, 10 * Scale),
            Regenerated(topo, sc, DiamArray(topo.Nt, zt, d), pt))

NextPore == FromThroat \/ StaticPressure

SpecPore == InitPore /\ [][NextPore]_vars

(***************************************************************************)
(* The helpers, called on their own                                        *)
(***************************************************************************)
\* radii arrays of up to MaxLen elements, each 0, 1 or MaxRadius
RadiiArrays == UNION { [1..n -> {Fin(r * Scale) : r \in {0, 1, MaxRadius}}] : n \in 1..MaxLen }
Modes == {"max", "min", "mean", "median"}

HandleZeros ==
  \E array \in RadiiArrays, mode \in Modes, value \in {None, Fin(5 * Scale)} :
    LET res == _handle_zeros(array, mode, value)
    IN /\ ret' = [fn |-> "_handle_zeros", args |-> [array |-> array, mode |-> mode, value |-> value],
                  status |-> res.status, value |-> res.array]
       /\ before' = Snapshot
       /\ UNCHANGED <<network, phase, physics, OP_1, controller>>

GetKeyProps ==
  \E d \in DiameterKeys, st \in SigmaKeys, ca \in ThetaKeys :
    LET kp == _get_key_props(network, phase, d, st, ca)
    IN /\ ret' = [fn |-> "_get_key_props", args |-> KeyArgs(d, st, ca), status |-> "ok",
                  entity |-> kp.entity, sigma |-> kp.sigma, theta |-> kp.theta]
       /\ before' = Snapshot
       /\ UNCHANGED <<network, phase, physics, OP_1, controller>>

InitHelpers ==
  \E topo \in Topologies :
    Setup(topo, StackedCoords(topo.Np), WholeScope(topo), DiamArray(topo.Np, 1, 1),
          DiamArray(topo.Nt, 1, 1), Graded(topo.Np, 0, 80 * Scale), [i \in 1..topo.Np |-> TRUE],
          Uniform(topo.Np, Scale), <<>>)

NextHelpers == HandleZeros \/ GetKeyProps

SpecHelpers == InitHelpers /\ [][NextHelpers]_vars

(***************************************************************************)
(* OrdinaryPercolation: OP_1.run(invading_fluid, defending_fluid, inlets,   *)
(* npts), a sweep over npts ascending pressures                            *)
(***************************************************************************)
MaxPts == 3

\* the threshold capillary pressure of throat t, as the invading phase's
\* physics holds it
Threshold(t) == physics.props[KThroatPc][t].v

\* the k-th of npts pressures spanning the range of the thresholds
PressureAt(k, npts) ==
  LET all == {Threshold(t) : t \in 1..network.Nt}
      lo == CHOOSE x \in all : \A y \in all : x <= y
      hi == CHOOSE x \in all : \A y \in all : y <= x
  IN IF npts = 1 THEN hi ELSE lo + ((hi - lo) * (k - 1)) \div (npts - 1)

ThroatPores(t) == {network.conns[t][1], network.conns[t][2]}

\* a throat invaded although its threshold is not below the pressure
InvadableAbove(t, p) == Threshold(t) >= p

\* a throat can be invaded at pressure p when its threshold is <= p
Invadable(t, p) == Threshold(t) <= p

\* flood-fill growth from the inlet pores: throats already invaded stay
\* invaded; an invadable throat touching an inlet pore or a pore of an invaded
\* throat is invaded, until nothing more can be
RECURSIVE Flood(_, _, _)
Flood(inv, inlets, p) ==
  LET wet == inlets \cup UNION {ThroatPores(t) : t \in inv}
      more == {t \in 1..network.Nt : t \notin inv /\ Invadable(t, p) /\ ThroatPores(t) \cap wet # {}}
  IN IF more = {} THEN inv ELSE Flood(inv \cup more, inlets, p)

\* OP_1.run(...): npts <= 0 is a configuration error; otherwise the sweep starts
Run ==
  /\ OP_1.status = "idle"
  /\ KThroatPc \in DOMAIN physics.props
  /\ \E inlets \in SUBSET (1..network.Np), npts \in 0..MaxPts :
       OP_1' = IF npts <= 0
               THEN [IdleOP EXCEPT !.status = "ConfigurationError", !.inlets = inlets]
               ELSE [IdleOP EXCEPT !.status = "running", !.inlets = inlets, !.npts = npts]
  /\ UNCHANGED <<network, phase, physics, ret, before, controller>>

\* one pressure step of the sweep; the invaded set of each step is recorded
Step ==
  /\ OP_1.status = "running"
  /\ LET k == Len(OP_1.Pc) + 1
         p == PressureAt(k, OP_1.npts)
         prev == IF k = 1 THEN {} ELSE OP_1.invaded[k - 1]
     IN OP_1' = [OP_1 EXCEPT !.Pc = Append(@, p),
                             !.invaded = Append(@, Flood(prev, OP_1.inlets, p)),
                             !.status = IF k = OP_1.npts THEN "done" ELSE "running"]
  /\ UNCHANGED <<network, phase, physics, ret, before, controller>>

InitPerc ==
  \E topo \in Topologies :
    \E zt \in 0..topo.Nt, d \in 1..MaxDiam, pt \in PoreThetaArrays(topo.Np) :
      Setup(topo, StackedCoords(topo.Np), WholeScope(topo), DiamArray(topo.Np, 0, d),
            DiamArray(topo.Nt, zt, d), pt, [i \in 1..topo.Np |-> FALSE],
            Uniform(topo.Np, Scale),
            Regenerated(topo, WholeScope(topo), DiamArray(topo.Nt, zt, d), pt))

NextPerc == Run \/ Step

SpecPerc == InitPerc /\ [][NextPerc]_vars

(***************************************************************************)
(* Controller: the registry of simulation objects, as ControllerTest.py    *)
(* exercises it.  An object is its index in controller.objects; the        *)
(* registry is a dict from names to objects, held as <<name, object>> pairs *)
(***************************************************************************)
MaxObjects == 4

Keys(reg) == {e[1] : e \in reg}
Values(reg) == {e[2] : e \in reg}

\* self[name] = obj
Register(reg, name, obj) == {e \in reg : e[1] # name} \cup {<<name, obj>>}

\* purge_object(obj): the object leaves the registry and loses its
\* controller reference
PurgeSingle(ctrl, obj) ==
  [ctrl EXCEPT !.registry = {e \in @ : e[2] # obj},
               !.objects[obj].controller = FALSE]

\* purge_object(obj, mode='complete') removing the object and its network only
PurgeObjectAndNetwork(ctrl, obj) ==
  [ctrl EXCEPT !.registry = {e \in @ : e[2] \notin {obj, ctrl.objects[obj].net}}]

\* purge_object(obj, mode='complete'): the network obj belongs to and every
\* object of that network leave the registry
PurgeComplete(ctrl, obj) ==
  [ctrl EXCEPT !.registry = {e \in @ : ctrl.objects[e[2]].net # ctrl.objects[obj].net}]

Did(ctrl, last) == [ctrl EXCEPT !.last = last]

\* OpenPNM.Network.Cubic(...): a new network, registered under a new name
NewNetwork ==
  /\ Len(controller.objects) < MaxObjects
  /\ LET obj == Len(controller.objects) + 1
     IN controller' = Did([controller EXCEPT
                             !.objects = Append(@, [name |-> obj, kind |-> "network", net |-> obj,
                                                    controller |-> TRUE]),
                             !.registry = Register(@, obj, obj)],
                          [op |-> "create", obj |-> obj])
  /\ UNCHANGED <<network, phase, physics, ret, before, OP_1>>

\* OpenPNM.Geometry.GenericGeometry(network=net), OpenPNM.Phases.GenericPhase(network=net)
NewObject ==
  /\ Len(controller.objects) < MaxObjects
  /\ \E net \in Values(controller.registry), kind \in {"geometry", "phase"} :
       /\ controller.objects[net].kind = "network"
       /\ LET obj == Len(controller.objects) + 1
          IN controller' = Did([controller EXCEPT
                                  !.objects = Append(@, [name |-> obj, kind |-> kind, net |-> net,
                                                         controller |-> TRUE]),
                                  !.registry = Register(@, obj, obj)],
                               [op |-> "create", obj |-> obj])
  /\ UNCHANGED <<network, phase, physics, ret, before, OP_1>>

\* controller.purge_object(obj, mode) of a registered object
PurgeObject ==
  /\ \E obj \in Values(controller.registry), mode \in {"single", "complete"} :
       controller' = Did(IF mode = "single" THEN PurgeSingle(controller, obj)
                         ELSE PurgeComplete(controller, obj),
                         [op |-> "purge_object", obj |-> obj, mode |-> mode])
  /\ UNCHANGED <<network, phase, physics, ret, before, OP_1>>

\* controller.clear()
Clear ==
  /\ controller.registry # {}
  /\ controller' = Did([controller EXCEPT !.registry = {}], [op |-> "clear"])
  /\ UNCHANGED <<network, phase, physics, ret, before, OP_1>>

\* controller.ghost_object(obj): another object of the same name and content,
\* which the registry does not hold
GhostObject ==
  /\ Len(controller.objects) < MaxObjects
  /\ \E obj \in Values(controller.registry) :
       controller' = Did([controller EXCEPT !.objects = Append(@, controller.objects[obj])],
                         [op |-> "ghost_object", obj |-> Len(controller.objects) + 1])
  /\ UNCHANGED <<network, phase, physics, ret, before, OP_1>>

\* controller.save_simulation(net, filename): the registered objects of the
\* network go to the file (one file, written once)
SaveSimulation ==
  /\ controller.saved = <<>>
  /\ \E net \in Values(controller.registry) :
       /\ controller.objects[net].kind = "network"
       /\ LET ids == SortedSeq({o \in Values(controller.registry) : controller.objects[o].net = net})
          IN controller' = Did([controller EXCEPT
                                  !.saved = [i \in 1..Len(ids) |-> controller.objects[ids[i]]]],
                               [op |-> "save_simulation", obj |-> net])
  /\ UNCHANGED <<network, phase, physics, ret, before, OP_1>>

\* controller.load_simulation(filename): the objects of the file are built
\* anew and registered under their saved names
RECURSIVE RegisterAll(_, _, _, _)
RegisterAll(reg, saved, base, i) ==
  IF i > Len(saved) THEN reg
  ELSE RegisterAll(Register(reg, saved[i].name, base + i), saved, base, i + 1)

LoadSimulation ==
  /\ controller.saved # <<>>
  /\ Len(controller.objects) + Len(controller.saved) <= MaxObjects
  /\ LET base == Len(controller.objects)
         saved == controller.saved
         loaded == [i \in 1..Len(saved) |->
                      [saved[i] EXCEPT !.net = base + 1, !.controller = TRUE]]
     IN controller' = Did([controller EXCEPT
                             !.objects = @ \o loaded,
                             !.registry = RegisterAll(@, saved, base, 1)],
                          [op |-> "load_simulation", obj |-> base + 1])
  /\ UNCHANGED <<network, phase, physics, ret, before, OP_1>>

InitCtrl ==
  Setup(Chain3, StackedCoords(3), WholeScope(Chain3), DiamArray(3, 0, 1), DiamArray(2, 0, 1),
        Graded(3, 0, 80 * Scale), [i \in 1..3 |-> FALSE], Uniform(3, Scale), <<>>)

NextCtrl ==
  \/ NewNetwork
  \/ NewObject
  \/ PurgeObject
  \/ Clear
  \/ GhostObject
  \/ SaveSimulation
  \/ LoadSimulation

SpecCtrl == InitCtrl /\ [][NextCtrl]_vars

(***************************************************************************)
(* Properties                                                              *)
(***************************************************************************)
ModelFns == {"washburn", "purcell", "cuboid", "kelvin"}
Returns(fns) == ret.fn \in fns /\ ret.status = "ok"

\* C1: an array returned by washburn or cuboid has no element of infinite
\* magnitude: an element computed as +inf or -inf is returned as 0, and every
\* other element is returned as computed.
C1_InfClampedOnly ==
  Returns({"washburn", "cuboid"}) =>
    /\ Len(ret.value) = Len(ret.raw)
    /\ \A i \in 1..Len(ret.value) :
         /\ ~IsInf(ret.value[i])
         /\ IsInf(ret.raw[i]) => ret.value[i] = Fin(0)
         /\ ~IsInf(ret.raw[i]) => ret.value[i] = ret.raw[i]

\* washburn on an array whose radii are all zero computed -inf and returned 0
C1_Witness ==
  /\ Returns({"washburn"})
  /\ \A i \in 1..Len(network.props[ret.args.diameter]) : network.props[ret.args.diameter][i] = Fin(0)
  /\ \E i \in 1..Len(ret.value) : ret.raw[i] = NInf /\ ret.value[i] = Fin(0)

\* C2: _handle_zeros with mode "max" and no value, on an array with at least
\* one non-zero entry, returns an array without zero entries in which every
\* non-zero entry of the input keeps its value and position.
C2_MaxFillsZeros ==
  (/\ ret.fn = "_handle_zeros" /\ ret.args.mode = "max" /\ ret.args.value = None
   /\ \E i \in 1..Len(ret.args.array) : ret.args.array[i] # Fin(0)) =>
    /\ ret.status = "ok"
    /\ Len(ret.value) = Len(ret.args.array)
    /\ \A i \in 1..Len(ret.value) :
         /\ ret.value[i] # Fin(0)
         /\ ret.args.array[i] # Fin(0) => ret.value[i] = ret.args.array[i]

\* an input with a zero and two different non-zero entries was filled
C2_Witness ==
  /\ ret.fn = "_handle_zeros" /\ ret.args.mode = "max" /\ ret.args.value = None
  /\ ret.status = "ok"
  /\ \E i, j, k \in 1..Len(ret.args.array) :
       /\ ret.args.array[i] = Fin(0) /\ ret.args.array[j] = Fin(Scale)
       /\ ret.args.array[k] = Fin(MaxRadius * Scale) /\ ret.value[i] = Fin(MaxRadius * Scale)

\* C3: every capillary-pressure model returns an array aligned to the physics
\* scope: as long as the number of governed pores (throats), its i-th element
\* the value computed for the i-th governed pore (throat).
Governed(entity) == IF entity = "throat" THEN PhaseThroats(physics) ELSE PhasePores(physics)

C3_AlignedToScope ==
  Returns(ModelFns) =>
    LET idx == Governed(ret.args.diameter[1])
    IN /\ Len(ret.value) = Len(idx)
       /\ \A i \in 1..Len(idx) : idx[i] \in 1..Len(ret.full) /\ ret.raw[i] = ret.full[idx[i]]

\* C4: after any call of a model, every array of the Network and of the Phase
\* is as it was before the call.
C4_NoMutation == ret.fn # "" => (network = before.network /\ phase = before.phase)

\* C5: _get_key_props returns, for every combination of scopes, sigma and
\* theta with one value per entity of the kind the diameter key names; a
\* pore-scoped property is interpolated for a throat target; what is done to
\* one property depends on its own key and the diameter key alone.
C5_PerTargetEntity ==
  ret.fn = "_get_key_props" =>
    LET target == ret.args.diameter[1]
        n == IF target = "throat" THEN network.Nt ELSE network.Np
        Interpolated(key) == key[1] = "pore" /\ target = "throat"
    IN /\ ret.entity = target
       /\ Len(ret.sigma) = n
       /\ Len(ret.theta) = n
       /\ Interpolated(ret.args.surface_tension) =>
            ret.sigma = interpolate_data(network, phase[ret.args.surface_tension])
       /\ Interpolated(ret.args.contact_angle) =>
            ret.theta = interpolate_data(network, phase[ret.args.contact_angle])

\* C6: _handle_zeros without a value replaces every zero by the minimum (mode
\* "min") or the mean (mode "mean") of the non-zero entries and leaves the
\* non-zero entries alone; with a value, every zero is replaced by the value
\* whatever the mode.
NonZero(array) == SelectSeq(array, LAMBDA x : x # Fin(0))

C6_MinMeanValueFill ==
  (/\ ret.fn = "_handle_zeros"
   /\ ret.args.value # None \/ ret.args.mode \in {"min", "mean"}
   /\ NonZero(ret.args.array) # <<>>) =>
    LET a == ret.args.array
        fill == IF ret.args.value # None THEN ret.args.value
                ELSE IF ret.args.mode = "min" THEN AMin(NonZero(a)) ELSE AMean(NonZero(a))
    IN /\ ret.status = "ok"
       /\ ret.value = [i \in 1..Len(a) |-> IF a[i] = Fin(0) THEN fill ELSE a[i]]

\* C7: no element of the array any model returns has infinite magnitude,
\* arrays of all-zero radii included.
C7_NoInfiniteResult ==
  Returns(ModelFns) => \A i \in 1..Len(ret.value) : ~IsInf(ret.value[i])

\* C10: a purcell call whose result is undefined (nan) ends in an error; it
\* does not return an array holding nan.
C10_PurcellReportsUndefined ==
  ret.fn = "purcell" => ~(ret.status = "ok" /\ \E i \in 1..Len(ret.value) : IsNaN(ret.value[i]))

\* C8: from_throat returns, for every pore of the network, the selected
\* reduction (min, max or mean) of the capillary pressures the Physics holds
\* for exactly the throats incident to that pore; with any other operator the
\* reduction is the mean and the call returns without error.
Incident(i) == SortedSeq({t \in 1..network.Nt : i \in {network.conns[t][1], network.conns[t][2]}})
GovernedThroat(t) == \E k \in 1..Len(PhaseThroats(physics)) : PhaseThroats(physics)[k] = t
PcOfThroat(t) ==
  physics.props[KThroatPc][CHOOSE k \in 1..Len(PhaseThroats(physics)) : PhaseThroats(physics)[k] = t]

C8_FromThroatReduction ==
  ret.fn = "from_throat" =>
    LET valid == ret.args.operator \in {"min", "max", "mean"}
        op == IF valid THEN ret.args.operator ELSE "mean"
        Expected(i) ==
          LET ts == Incident(i)
              vals == [k \in 1..Len(ts) |-> PcOfThroat(ts[k])]
          IN IF op = "mean" THEN AMean(vals) ELSE IF op = "min" THEN AMin(vals) ELSE AMax(vals)
    IN /\ ret.status = "ok" =>
            /\ Len(ret.value) = network.Np
            /\ \A i \in 1..network.Np :
                 /\ \A k \in 1..Len(Incident(i)) : GovernedThroat(Incident(i)[k])
                 /\ ret.value[i] = Expected(i)
       /\ ~valid => ret.status = "ok"

\* C9: with gravity along one positive axis, static_pressure returns 0 for
\* every unoccupied pore and, for every occupied pore, density * g * (highest
\* coordinate of the pore's connected occupied cluster along that axis minus
\* the pore's own coordinate), so 0 at the top of each cluster.
C9_StaticPressureFormula ==
  (ret.fn = "static_pressure" /\ Cardinality({c \in 1..3 : ret.args.g[c] > 0}) = 1) =>
    LET g == ret.args.g
        k == CHOOSE c \in 1..3 : g[c] > 0
        occ == phase[KPoreOccupancy]
        rho == phase[KPoreDensity]
        z(p) == network.coords[p][k].v
        Cluster(p) == Reach(network, occ, {p})
        Top(p) == CHOOSE m \in {z(q) : q \in Cluster(p)} : \A q \in Cluster(p) : z(q) <= m
    IN /\ ret.status = "ok"
       /\ Len(ret.value) = network.Np
       /\ \A p \in 1..network.Np :
            ret.value[p] = IF ~occ[p] THEN Fin(0)
                           ELSE FMul(rho[p], FMul(Fin(g[k]), Fin(Top(p) - z(p))))

\* pores 1 and 2, one length unit apart along z and joined by a throat, form
\* the only cluster; density 1000 and g = 9.81 give 9810 at the bottom pore
\* and 0 at the top pore
C9_Witness ==
  /\ ret.fn = "static_pressure" /\ ret.status = "ok" /\ ret.args.g = <<0, 0, 981>>
  /\ phase[KPoreOccupancy] = <<TRUE, TRUE, FALSE>>
  /\ \E t \in 1..network.Nt : {network.conns[t][1], network.conns[t][2]} = {1, 2}
  /\ network.coords[1][3] = Fin(0) /\ network.coords[2][3] = Fin(Scale)
  /\ phase[KPoreDensity][1] = Fin(1000 * Scale)
  /\ ret.value = <<Fin(9810 * Scale), Fin(0), Fin(0)>>

\* C11: _handle_zeros called without a value and with a mode other than max,
\* min or mean ends in an error; it does not return an array.
C11_UnknownModeRaises ==
  (/\ ret.fn = "_handle_zeros" /\ ret.args.value = None
   /\ ret.args.mode \notin {"max", "min", "mean"}) => ret.status # "ok"

\* C14: a model called again right after it returned, with the same keys on
\* the same network, phase and physics objects, returns again, and returns
\* the same array (nan counted equal to nan).
C14_Repeatable ==
  [][(/\ ret.fn \in ModelFns /\ ret.status = "ok"
      /\ ret'.fn = ret.fn /\ ret'.args = ret.args)
     => (ret'.status = "ok" /\ ret'.value = ret.value)]_vars

\* C12: in one percolation run the invaded throats of an earlier pressure step
\* are invaded at every later step, and a throat newly invaded at a step has
\* its threshold <= that step's pressure and is joined to an inlet pore by
\* throats invaded at that step.
RECURSIVE PoresReached(_, _)
PoresReached(S, P) ==
  LET Q == P \cup UNION {ThroatPores(t) : t \in {u \in S : ThroatPores(u) \cap P # {}}}
  IN IF Q = P THEN P ELSE PoresReached(S, Q)

C12_InvasionMonotonic ==
  OP_1.status \in {"running", "done"} =>
    LET inv == OP_1.invaded
    IN /\ Len(OP_1.Pc) = Len(inv)
       /\ \A i, j \in 1..Len(inv) : i <= j => inv[i] \subseteq inv[j]
       /\ \A k \in 1..Len(inv) : \A t \in inv[k] :
            (k = 1 \/ t \notin inv[k - 1]) =>
              /\ Threshold(t) <= OP_1.Pc[k]
              /\ ThroatPores(t) \cap PoresReached(inv[k], OP_1.inlets) # {}

\* a finished run in which the first step invaded a throat, a later step
\* invaded another one, and the inlets are not all the pores
C12_Witness ==
  /\ OP_1.status = "done" /\ Len(OP_1.invaded) >= 2
  /\ OP_1.inlets # 1..network.Np
  /\ OP_1.invaded[1] # {}
  /\ OP_1.invaded[1] # OP_1.invaded[Len(OP_1.invaded)]

====
